---------------------------- MODULE Spec2Model ----------------------------
(***************************************************************************)
(* A model of the HTTPPipeline object of                                   *)
(* pkg/object/httppipeline/httppipeline.go: Spec.Validate, New (with a     *)
(* predecessor pipeline), HTTPPipeline.Handle and HTTPPipeline.Close, and  *)
(* the shared handler map they write.  The spec document calls a plugin a  *)
(* "filter"; the definitions keep the names of the source.                 *)
(***************************************************************************)
EXTENDS Integers, Sequences, FiniteSets, TLC

(***************************************************************************)
(* Bounds of the model.                                                    *)
(***************************************************************************)
\* longest flow of a spec
MaxFlow == 3
\* longest plugins list of a spec drawn with a varied plugins list
MaxPlugins == 2
\* pipelines the scheduler creates in one behaviour
MaxPipelines == 2
\* requests dispatched in one behaviour
MaxRequests == 1
\* requests whose Handle calls run concurrently on one pipeline
MaxConcurrent == 2

(***************************************************************************)
(* Program constants and the plugin registry.                              *)
(***************************************************************************)
LabelEND == "END"

\* pluginBook: kind -> PluginRecord.Results.  One registered kind whose
\* Handle may return "x" or "z"; the kind "U" is not registered.
pluginBook == [K |-> {"x", "z"}]

\* what a plugin's Handle returns: "" (go on), a declared label, or the
\* undeclared label "y" (logged as a bug by Handle)
HandleResults == {"", "x", "z", "y"}

NoJumpIf == [r \in {} |-> LabelEND]

\* the zero Value passed to a constructor with no predecessor / no instance
NoPlugin == 0
\* no pipeline (a nil *HTTPPipeline, an absent handler map entry)
NoPipeline == 0

(***************************************************************************)
(* Spec.Validate                                                           *)
(***************************************************************************)
\* validatePluginMeta
validatePluginMeta(meta) ==
    IF meta.name = "" THEN "plugin name is required"
    ELSE IF meta.kind = "" THEN "plugin kind is required"
    ELSE "nil"

validatePluginNoConflict(plugins, i) ==
    LET p == plugins[i] IN
    IF validatePluginMeta(p) # "nil" THEN validatePluginMeta(p)
    ELSE IF p.name = LabelEND THEN "can't use END for plugin name"
    ELSE IF p.kind \notin DOMAIN pluginBook THEN "unsupported kind"
    ELSE IF ~p.valid THEN "invalid plugin spec"
    ELSE "nil"

\* the checks of one iteration of the loop over s.Plugins; the iteration
\* is reached only when all earlier ones passed, so pluginRecords holds
\* the names of all earlier plugins
validatePlugin(plugins, i) ==
    LET p == plugins[i] IN
    IF validatePluginMeta(p) # "nil" THEN validatePluginMeta(p)
    ELSE IF p.name = LabelEND THEN "can't use END for plugin name"
    ELSE IF \E j \in 1..(i-1) : plugins[j].name = p.name THEN "conflict name"
    ELSE IF p.kind \notin DOMAIN pluginBook THEN "unsupported kind"
    ELSE IF ~p.valid THEN "invalid plugin spec"
    ELSE "nil"

\* the map `plugins` of the repeated-plugin loop when it reaches flow step
\* i: the loop only reads the map, nothing is ever stored in it
flowPluginsSeen(flow, i) == {}

repeatedPlugin(flow) ==
    \E i \in 1..Len(flow) : flow[i].plugin \in flowPluginsSeen(flow, i)

labelsValidLate(flow, i) ==
    {LabelEND} \cup {flow[j].plugin : j \in i..Len(flow)}

\* labelsValid when the backward scan checks flow step i: END and the
\* plugins of the steps after i
labelsValid(flow, i) ==
    {LabelEND} \cup {flow[j].plugin : j \in (i+1)..Len(flow)}

\* the checks of the backward scan on flow step i.  The order in which Go
\* ranges over a jumpIf map is unspecified: with several bad entries any of
\* their errors is the one reported, acceptance does not depend on it.
validateFlowStep(s, i) ==
    LET f == s.flow[i]
        declared == {s.plugins[j].name : j \in 1..Len(s.plugins)}
        kindOf == (CHOOSE j \in 1..Len(s.plugins) : s.plugins[j].name = f.plugin)
        results == pluginBook[s.plugins[kindOf].kind]
    IN  IF f.plugin \notin declared THEN "plugin not found"
        ELSE IF \E r \in DOMAIN f.jumpIf : r \notin results
             THEN "result is not in results"
        ELSE IF \E r \in DOMAIN f.jumpIf : f.jumpIf[r] \notin labelsValid(s.flow, i)
             THEN "label not found"
        ELSE "nil"

\* Spec.Validate: "nil" or the first error the code runs into
Validate(s) ==
    LET badPlugins == {i \in 1..Len(s.plugins) : validatePlugin(s.plugins, i) # "nil"}
        firstBad == CHOOSE i \in badPlugins : \A j \in badPlugins : i <= j
        badSteps == {i \in 1..Len(s.flow) : validateFlowStep(s, i) # "nil"}
        lastBad == CHOOSE i \in badSteps : \A j \in badSteps : i >= j
    IN  IF ~s.hasPlugins THEN "plugins is required"
        ELSE IF badPlugins # {} THEN validatePlugin(s.plugins, firstBad)
        ELSE IF repeatedPlugin(s.flow) THEN "repeated plugin"
        ELSE IF badSteps # {} THEN validateFlowStep(s, lastBad)
        ELSE "nil"


(***************************************************************************)
(* The specs the scheduler is given.                                       *)
(***************************************************************************)
PipelineName == "pipeline"

SeqsUpTo(S, n) == UNION {[1..k -> S] : k \in 0..n}

MkPlugin(n, k) == [name |-> n, kind |-> k, valid |-> TRUE]
MkFlow(p, j) == [plugin |-> p, jumpIf |-> j]
MkSpec(pl, fl) ==
    [name |-> PipelineName, hasPlugins |-> TRUE, plugins |-> pl, flow |-> fl]

Jump(r, t) == [l \in {r} |-> t]

\* jump tables: none, the declared label "x" to END or to a plugin name,
\* the undeclared label "y"
JumpIfs ==
    {NoJumpIf, Jump("y", LabelEND)} \cup {Jump("x", t) : t \in {LabelEND, "a", "b", "c"}}

FlowSteps == {MkFlow(p, j) : p \in {"a", "b", "c"}, j \in JumpIfs}

\* three valid plugins and every flow over them, up to MaxFlow steps
FlowSpecs ==
    {MkSpec(<<MkPlugin("a", "K"), MkPlugin("b", "K"), MkPlugin("c", "K")>>, fl) :
        fl \in SeqsUpTo(FlowSteps, MaxFlow)}

PluginDecls == [name : {"", "a", "b", LabelEND}, kind : {"", "K", "U"}, valid : BOOLEAN]

\* every plugins list of up to MaxPlugins plugins, under a few short flows
PluginSpecs ==
    {MkSpec(pl, fl) : pl \in SeqsUpTo(PluginDecls, MaxPlugins),
        fl \in {<<>>, <<MkFlow("a", NoJumpIf)>>, <<MkFlow("b", Jump("x", LabelEND))>>}}

\* a config document without the plugins key
NoPluginsSpec ==
    [name |-> PipelineName, hasPlugins |-> FALSE, plugins |-> <<>>, flow |-> <<>>]

SeqSpecs == FlowSpecs \cup PluginSpecs \cup {NoPluginsSpec}

\* the specs of the reloads: plugins are dropped, retained and added
AB == <<MkPlugin("a", "K"), MkPlugin("b", "K")>>
ReloadSpecs ==
    { MkSpec(AB, <<>>),
      MkSpec(AB, <<MkFlow("b", Jump("x", "b")), MkFlow("b", NoJumpIf)>>) }

\* the results plugins return under reloads
ReloadResults == {"", "x"}

(***************************************************************************)
(* State.                                                                  *)
(***************************************************************************)
VARIABLES
    input,            \* the specs the scheduler may be given
    limits,           \* the pipelines, requests and plugin results of a behaviour
    sched,            \* the scheduler thread: Validate, New and Close
    pipes,            \* the HTTPPipeline objects created so far
    insts,            \* the plugin instances created so far
    handlers,         \* the shared sync.Map: pipeline name -> *HTTPPipeline
    reqs,             \* the request threads: dispatch and Handle
    runningContexts,  \* the sync.Map HTTPContext -> *PipelineContext
    tags              \* tags added to each HTTPContext

\* the Validator plugin with BasicAuth from the cluster
VARIABLES
    userCache,        \* the etcdUserCache and its watcher goroutine
    validator,        \* the Validator and the request its Handle is working on
    syncer            \* the snapshots sent on the syncer channel

authVars == <<userCache, validator, syncer>>

vars == <<input, limits, sched, pipes, insts, handlers, reqs, runningContexts, tags,
          userCache, validator, syncer>>

Requests == 1..limits.requests

IdleSched ==
    [pc |-> "idle", spec |-> NoPluginsSpec, verr |-> "none", hp |-> NoPipeline,
     prev |-> NoPipeline, rp |-> <<>>, k |-> 0, cur |-> NoPipeline]

\* stored and deleted count the calls of newAndSetPipelineContext and of
\* deletePipelineContext the request's Handle has made
IdleReq ==
    [pc |-> "idle", hp |-> NoPipeline, i |-> 0, next |-> "", stats |-> <<>>,
     stored |-> 0, deleted |-> 0]

(***************************************************************************)
(* The Validator plugin: credentials, the cluster documents they come      *)
(* from, and the requests.                                                 *)
(***************************************************************************)
\* snapshots sent on the syncer channel in one behaviour
MaxSnapshots == 2

resultInvalid == "invalid"

UserIds == {"userY", "userX", "doge"}

Passwords == {"p", "q"}

\* a password as the cluster stores it: the bcrypt hash of a password, a
\* password in plain text, or none
bcryptHash(pw) == [alg |-> "bcrypt", of |-> pw]

plainText(pw) == [alg |-> "plain", of |-> pw]

NoPassword == [alg |-> "none", of |-> ""]

\* the values under the prefix: YAML documents with the fields username,
\* key and password, "" and NoPassword for a field the document lacks
docKeyY == [username |-> "", key |-> "userY", password |-> bcryptHash("p")]

docUserX == [username |-> "userX", key |-> "userY", password |-> bcryptHash("q")]

docDoge == [username |-> "", key |-> "doge", password |-> plainText("q")]

docNoPassword == [username |-> "", key |-> "userX", password |-> NoPassword]

docNoKey == [username |-> "", key |-> "", password |-> bcryptHash("p")]

Docs == {docKeyY, docUserX, docDoge, docNoPassword, docNoKey}

\* the maps GetPrefix and the syncer channel deliver: nothing, two users in
\* the two shapes, one of them replaced by another among documents that
\* lack a field, one user left
Kvs ==
    {{}, {docKeyY, docUserX}, {docUserX, docDoge, docNoPassword, docNoKey},
     {docKeyY, docNoPassword}}

\* the name of the user a document is about
docName(d) == IF d.username # "" THEN d.username ELSE d.key

\* kvsToReader: one line name:password per document that has both
kvsToReader(kvs) ==
    {<<docName(d), d.password>> : d \in {e \in kvs : docName(e) # "" /\ e.password # NoPassword}}

reloadMerge(users, lines) == users \cup lines

reloadKeep(users, lines) == users

\* ReloadFromReader: the lines become the whole map
ReloadFromReader(users, lines) == lines

verifyBcryptOnly(stored, pw) == stored = bcryptHash(pw)

\* a stored password verifies pw: the bcrypt hash of pw, or pw itself in
\* plain text
verify(stored, pw) == stored = bcryptHash(pw) \/ stored = plainText(pw)

\* Match on the in-memory map
Match(users, u, pw) == \E e \in users : e[1] = u /\ verify(e[2], pw)

customDataPrefix == "/custom-data/"

\* newEtcdUserCache: the prefix of the cache for the etcdPrefix of the spec
normalizedPrefix(etcdPrefix) ==
    CASE etcdPrefix = "" -> "/custom-data/credentials/"
      [] etcdPrefix = "credentials/" -> "/custom-data/credentials/"
      [] etcdPrefix = "/extra-slash/" -> "/custom-data/extra-slash/"

EtcdPrefixes == {"", "credentials/", "/extra-slash/"}

\* the sub-validators in the order Handle runs them
SubValidators == <<"headers", "jwt", "signature", "oauth2", "basicAuth">>

\* the credentials of the Authorization header: none, Basic credentials
\* without a ':', or a user and a password
NoCredentials == [shape |-> "none", user |-> "", password |-> ""]

NoColon == [shape |-> "nocolon", user |-> "", password |-> ""]

Credentials(u, pw) == [shape |-> "pair", user |-> u, password |-> pw]

BasicCredentials ==
    {NoCredentials, NoColon} \cup {Credentials(u, pw) : u \in UserIds, pw \in Passwords}

\* a request: the Is-Valid header, the bearer token, whether the signature
\* and the OAuth2 token check out, and the Basic credentials
MkRequest(h, b, s, o, c) ==
    [isValid |-> h, bearer |-> b, signed |-> s, active |-> o, basic |-> c]

BasicRequests == {MkRequest("goodplan", "good", TRUE, TRUE, c) : c \in BasicCredentials}

AnyRequests ==
    {MkRequest(h, b, s, o, c) :
        h \in {"", "Invalid", "goodplan", "ok-1"}, b \in {"", "good", "goodabc"},
        s \in BOOLEAN, o \in BOOLEAN,
        c \in {NoCredentials, Credentials("userY", "p"), Credentials("userY", "q")}}

NoKvs == {}

IdleUserCache ==
    [prefix |-> "", users |-> {}, closed |-> FALSE, watched |-> FALSE, calls |-> {},
     watcher |-> "off", kvs |-> NoKvs]

IdleValidator ==
    [enabled |-> {}, pc |-> "idle", req |-> MkRequest("", "", FALSE, FALSE, NoCredentials),
     view |-> {}, viewOf |-> NoKvs, matched |-> "none", result |-> "", authUser |-> ""]

IdleSyncer == [n |-> 0, current |-> NoKvs, previous |-> NoKvs]

\* no pipeline yet
InitPipelines(specs, np, nr, results) ==
    /\ input = specs
    /\ limits = [pipelines |-> np, requests |-> nr, results |-> results]
    /\ sched = IdleSched
    /\ pipes = <<>>
    /\ insts = <<>>
    /\ handlers = [n \in {PipelineName} |-> NoPipeline]
    /\ reqs = [r \in 1..nr |-> IdleReq]
    /\ runningContexts = {}
    /\ tags = [r \in 1..nr |-> 0]

\* pipelines without a Validator plugin
InitWith(specs, np, nr, results) ==
    /\ userCache = IdleUserCache
    /\ validator = IdleValidator
    /\ syncer = IdleSyncer
    /\ InitPipelines(specs, np, nr, results)

\* reloads of a running pipeline under concurrent requests
Init == InitWith(ReloadSpecs, MaxPipelines, MaxRequests, ReloadResults)

\* one spec, one pipeline built from it, one request
InitSeq == \E s \in SeqSpecs : InitWith({s}, 1, 1, HandleResults)

\* one pipeline under concurrent requests
InitPar == InitWith(ReloadSpecs, 1, MaxConcurrent, ReloadResults)

(***************************************************************************)
(* Helpers over running plugins.                                           *)
(***************************************************************************)
\* the running plugins a thread reaches through hp.runningPlugins
RunningPlugins(hp) == pipes[hp].runningPlugins

\* getRunningPlugin over a list of running plugins: the position of the
\* first one named name, 0 for nil
getRunningPluginNone(rps, name) == 0

getRunningPlugin(rps, name) ==
    IF \E j \in 1..Len(rps) : rps[j].name = name
    THEN CHOOSE j \in 1..Len(rps) :
            /\ rps[j].name = name
            /\ \A l \in 1..(j-1) : rps[l].name # name
    ELSE 0

flowPluginSpecNone(spec, f) == 0

\* the pluginSpec New pairs with a flow step: the first declared plugin of
\* that name, 0 when there is none (pluginSpec == nil)
flowPluginSpec(spec, f) ==
    IF \E j \in 1..Len(spec.plugins) : spec.plugins[j].name = f.plugin
    THEN CHOOSE j \in 1..Len(spec.plugins) :
            /\ spec.plugins[j].name = f.plugin
            /\ \A l \in 1..(j-1) : spec.plugins[l].name # f.plugin
    ELSE 0

MkRunning(ps, j) ==
    [name |-> ps.name, kind |-> ps.kind, jumpIf |-> j, plugin |-> NoPlugin]

resolveAllDeclared(spec) ==
    [j \in 1..Len(spec.plugins) |-> MkRunning(spec.plugins[j], NoJumpIf)]

resolveReversed(spec) ==
    IF Len(spec.flow) = 0
    THEN [j \in 1..Len(spec.plugins) |->
            MkRunning(spec.plugins[Len(spec.plugins) + 1 - j], NoJumpIf)]
    ELSE [j \in 1..Len(spec.flow) |->
            MkRunning(spec.plugins[flowPluginSpec(spec, spec.flow[j])],
                      spec.flow[j].jumpIf)]

\* the running plugins New resolves from the spec, not yet constructed:
\* the declared plugins when the flow is empty, else one per flow step
resolveRunningPlugins(spec) ==
    IF Len(spec.flow) = 0
    THEN [j \in 1..Len(spec.plugins) |-> MkRunning(spec.plugins[j], NoJumpIf)]
    ELSE [j \in 1..Len(spec.flow) |->
            MkRunning(spec.plugins[flowPluginSpec(spec, spec.flow[j])],
                      spec.flow[j].jumpIf)]

\* New panics while resolving: a flow step names no declared plugin
flowPluginMissing(spec) ==
    \E j \in 1..Len(spec.flow) : flowPluginSpec(spec, spec.flow[j]) = 0

(***************************************************************************)
(* The scheduler: Validate, New, Close.                                    *)
(***************************************************************************)
\* the scheduler validates a spec it was given; a rejected spec is dropped
SchedValidate(sp) ==
    /\ sched.pc = "idle"
    /\ Len(pipes) < limits.pipelines
    /\ sched' = [sched EXCEPT !.spec = sp, !.verr = Validate(sp),
                    !.pc = IF Validate(sp) = "nil" THEN "new" ELSE "idle"]
    /\ UNCHANGED <<authVars, input, limits, pipes, insts, handlers, reqs, runningContexts, tags>>

\* New called on the spec although Validate rejected it
NewUnvalidated ==
    /\ sched.pc = "idle"
    /\ sched.verr \notin {"none", "nil"}
    /\ Len(pipes) < limits.pipelines
    /\ sched' = [sched EXCEPT !.pc = "new"]
    /\ UNCHANGED <<authVars, input, limits, pipes, insts, handlers, reqs, runningContexts, tags>>

\* New, lines 282-314: allocate hp and resolve the running plugins
NewResolve ==
    /\ sched.pc = "new"
    /\ pipes' = Append(pipes, [spec |-> sched.spec, prev |-> sched.cur,
                               runningPlugins |-> <<>>, state |-> "new"])
    /\ IF flowPluginMissing(sched.spec)
       THEN sched' = [sched EXCEPT !.pc = "panic", !.hp = Len(pipes) + 1,
                                   !.prev = sched.cur]
       ELSE sched' = [sched EXCEPT !.pc = "construct", !.hp = Len(pipes) + 1,
                                   !.prev = sched.cur,
                                   !.rp = resolveRunningPlugins(sched.spec)]
    /\ UNCHANGED <<authVars, input, limits, insts, handlers, reqs, runningContexts, tags>>

prevValueAtSameIndex(prev, k, name) ==
    IF prev # NoPipeline /\ k <= Len(RunningPlugins(prev))
    THEN RunningPlugins(prev)[k].plugin
    ELSE NoPlugin

\* the prevValue New hands to the constructor of the running plugin named
\* name, the k-th of the new pipeline (lines 330-336)
prevValue(prev, k, name) ==
    IF prev # NoPipeline /\ getRunningPlugin(RunningPlugins(prev), name) # 0
    THEN RunningPlugins(prev)[getRunningPlugin(RunningPlugins(prev), name)].plugin
    ELSE NoPlugin

constructReturnsPrev(pv, id) == IF pv # NoPlugin THEN pv ELSE id

\* the instance a constructor returns: always a newly allocated one, which
\* is initialised fresh or inherits from pv
constructed(pv, id) == id

NewInstance(name, kind, hp, pv) ==
    [name |-> name, kind |-> kind, pipe |-> hp, prev |-> pv,
     closedByNew |-> 0, closedByClose |-> 0]

RECURSIVE constructAll(_, _, _, _, _)
\* the loop of lines 316-342 from running plugin k on: <<running plugins
\* with their instances, instances>>; the loop stops at a panic
constructAll(rps, k, prev, hp, ins) ==
    IF k > Len(rps) \/ rps[k].kind \notin DOMAIN pluginBook THEN <<rps, ins>>
    ELSE LET pv == prevValue(prev, k, rps[k].name)
             id == constructed(pv, Len(ins) + 1)
         IN  constructAll([rps EXCEPT ![k].plugin = id], k + 1, prev, hp,
                 IF id = Len(ins) + 1
                 THEN Append(ins, NewInstance(rps[k].name, rps[k].kind, hp, pv))
                 ELSE ins)

\* New panics while constructing: the kind of a running plugin is not in
\* pluginBook
kindMissing(rps) == \E k \in 1..Len(rps) : rps[k].kind \notin DOMAIN pluginBook

\* New, lines 316-344: construct every running plugin, handing each
\* constructor the predecessor's instance, then hp.runningPlugins =
\* runningPlugins
NewConstruct ==
    /\ sched.pc = "construct"
    /\ LET built == constructAll(sched.rp, 1, sched.prev, sched.hp, insts) IN
       /\ insts' = built[2]
       /\ IF kindMissing(sched.rp)
          THEN /\ sched' = [sched EXCEPT !.pc = "panic", !.rp = built[1]]
               /\ pipes' = pipes
          ELSE /\ sched' = [sched EXCEPT !.pc = "closePrev", !.rp = built[1], !.k = 1]
               /\ pipes' = [pipes EXCEPT ![sched.hp].runningPlugins = built[1],
                                         ![sched.hp].state = "assigned"]
    /\ UNCHANGED <<authVars, input, limits, handlers, reqs, runningContexts, tags>>

\* New, lines 346-352, one running plugin of prev per step: close it when
\* the new pipeline has no running plugin of its name
NewClosePrev ==
    /\ sched.pc = "closePrev"
    /\ sched.prev # NoPipeline
    /\ sched.k <= Len(RunningPlugins(sched.prev))
    /\ LET old == RunningPlugins(sched.prev)[sched.k] IN
       insts' = IF getRunningPlugin(RunningPlugins(sched.hp), old.name) = 0
                THEN [insts EXCEPT ![old.plugin].closedByNew = @ + 1]
                ELSE insts
    /\ sched' = [sched EXCEPT !.k = sched.k + 1]
    /\ UNCHANGED <<authVars, input, limits, pipes, handlers, reqs, runningContexts, tags>>

StoreNothing(m, key, value) == m

\* sync.Map.Store on the handler map
Store(m, key, value) == [m EXCEPT ![key] = value]

DeleteNothing(m, key) == m

\* sync.Map.Delete on the handler map
Delete(m, key) == [m EXCEPT ![key] = NoPipeline]

\* New, line 354: hp.handlers.Store(spec.Name, hp)
NewStore ==
    /\ sched.pc = "closePrev"
    /\ IF sched.prev = NoPipeline THEN TRUE
       ELSE sched.k > Len(RunningPlugins(sched.prev))
    /\ handlers' = Store(handlers, sched.spec.name, sched.hp)
    /\ pipes' = [pipes EXCEPT ![sched.hp].state = "stored"]
    /\ sched' = [sched EXCEPT !.pc = "return"]
    /\ UNCHANGED <<authVars, input, limits, insts, reqs, runningContexts, tags>>

\* New, line 356: return hp; the scheduler keeps it as its pipeline
NewReturn ==
    /\ sched.pc = "return"
    /\ pipes' = [pipes EXCEPT ![sched.hp].state = "running"]
    /\ sched' = [sched EXCEPT !.pc = "idle", !.cur = sched.hp]
    /\ UNCHANGED <<authVars, input, limits, insts, handlers, reqs, runningContexts, tags>>

\* Close, line 438: hp.handlers.Delete(hp.spec.Name)
CloseDelete(hp) ==
    /\ sched.pc = "idle"
    /\ pipes[hp].state = "running"
    /\ handlers' = Delete(handlers, pipes[hp].spec.name)
    /\ pipes' = [pipes EXCEPT ![hp].state = "closing"]
    /\ sched' = [sched EXCEPT !.pc = "close", !.hp = hp, !.k = 1,
                    !.cur = IF sched.cur = hp THEN NoPipeline ELSE sched.cur]
    /\ UNCHANGED <<authVars, input, limits, insts, reqs, runningContexts, tags>>

\* Close, lines 439-441, one running plugin per step
ClosePlugin ==
    /\ sched.pc = "close"
    /\ sched.k <= Len(RunningPlugins(sched.hp))
    /\ insts' = [insts EXCEPT ![RunningPlugins(sched.hp)[sched.k].plugin].closedByClose = @ + 1]
    /\ sched' = [sched EXCEPT !.k = sched.k + 1]
    /\ UNCHANGED <<authVars, input, limits, pipes, handlers, reqs, runningContexts, tags>>

\* Close returns
CloseReturn ==
    /\ sched.pc = "close"
    /\ sched.k > Len(RunningPlugins(sched.hp))
    /\ pipes' = [pipes EXCEPT ![sched.hp].state = "closed"]
    /\ sched' = [sched EXCEPT !.pc = "idle"]
    /\ UNCHANGED <<authVars, input, limits, insts, handlers, reqs, runningContexts, tags>>

(***************************************************************************)
(* The Validator plugin: the etcdUserCache, its watcher, and Handle.       *)
(***************************************************************************)
\* the cache newEtcdUserCache returns: the map is loaded from GetPrefix
newEtcdUserCache(etcdPrefix, seed) ==
    [IdleUserCache EXCEPT !.prefix = normalizedPrefix(etcdPrefix),
                          !.users = ReloadFromReader({}, kvsToReader(seed)),
                          !.calls = {"GetPrefix"}]

\* a Validator with the sub-validators of enabled, its BasicAuth on cache
InitValidator(cache, seed, enabled) ==
    /\ userCache = cache
    /\ validator = [IdleValidator EXCEPT !.enabled = enabled]
    /\ syncer = [n |-> 0, current |-> seed, previous |-> seed]
    /\ InitPipelines({}, 0, 0, {})

\* BasicAuth alone, on a cache of the cluster or on one without prefix
InitAuth ==
    \/ \E etcdPrefix \in EtcdPrefixes, seed \in Kvs :
          InitValidator(newEtcdUserCache(etcdPrefix, seed), seed, {"basicAuth"})
    \/ InitValidator(IdleUserCache, NoKvs, {"basicAuth"})

\* any sub-validators, BasicAuth on a cache that holds userY
InitAny ==
    \E enabled \in SUBSET {SubValidators[k] : k \in 1..Len(SubValidators)} :
        InitValidator(newEtcdUserCache("credentials/", {docKeyY}), {docKeyY}, enabled)

watchCallsAlways(prefix) == {"Syncer", "SyncPrefix"}

\* the cluster calls of WatchChanges
watchCalls(prefix) == IF prefix = "" THEN {} ELSE {"Syncer", "SyncPrefix"}

\* the cluster calls of Close
closeCalls(prefix) == IF prefix = "" THEN {} ELSE {"SyncerClose"}

\* WatchChanges up to its select: returns at once without a prefix
WatchChanges ==
    /\ ~userCache.watched
    /\ userCache' = [userCache EXCEPT
                        !.watched = TRUE,
                        !.calls = @ \cup watchCalls(userCache.prefix),
                        !.watcher = IF userCache.prefix = "" THEN "off" ELSE "recv"]
    /\ UNCHANGED <<validator, syncer, input, limits, sched, pipes, insts, handlers, reqs,
                   runningContexts, tags>>

\* syncerChannel <- kvs: the channel has no buffer, the send is the
\* watcher's receive
Publish(kvs) ==
    /\ userCache.watcher = "recv"
    /\ syncer.n < MaxSnapshots
    /\ userCache' = [userCache EXCEPT !.watcher = "reload", !.kvs = kvs]
    /\ syncer' = [n |-> syncer.n + 1, current |-> kvs, previous |-> syncer.current]
    /\ UNCHANGED <<validator, input, limits, sched, pipes, insts, handlers, reqs,
                   runningContexts, tags>>

\* the watcher replaces the map by the snapshot it received
WatcherReload ==
    /\ userCache.watcher = "reload"
    /\ userCache' = [userCache EXCEPT
                        !.users = ReloadFromReader(@, kvsToReader(userCache.kvs)),
                        !.watcher = "recv", !.kvs = NoKvs]
    /\ UNCHANGED <<validator, syncer, input, limits, sched, pipes, insts, handlers, reqs,
                   runningContexts, tags>>

\* the watcher's select finds the cache closed
WatcherStop ==
    /\ userCache.watcher = "recv"
    /\ userCache.closed
    /\ userCache' = [userCache EXCEPT !.watcher = "stopped"]
    /\ UNCHANGED <<validator, syncer, input, limits, sched, pipes, insts, handlers, reqs,
                   runningContexts, tags>>

\* Close of the cache
CacheClose ==
    /\ userCache.watched
    /\ ~userCache.closed
    /\ userCache' = [userCache EXCEPT !.closed = TRUE,
                                      !.calls = @ \cup closeCalls(userCache.prefix)]
    /\ UNCHANGED <<validator, syncer, input, limits, sched, pipes, insts, handlers, reqs,
                   runningContexts, tags>>

\* the verdict of a sub-validator other than BasicAuth
subAccepts(sub, req) ==
    CASE sub = "headers" -> req.isValid \in {"abc", "goodplan"} \/ req.isValid \in {"ok-1"}
      [] sub = "jwt" -> req.bearer = "good"
      [] sub = "signature" -> req.signed
      [] sub = "oauth2" -> req.active

subSkipsJWT(enabled, req) ==
    \E sub \in enabled \ {"basicAuth", "jwt"} : ~subAccepts(sub, req)

\* an enabled sub-validator that Handle runs before BasicAuth rejects
subRejects(enabled, req) ==
    \E sub \in enabled \ {"basicAuth"} : ~subAccepts(sub, req)

\* Validator.Handle up to BasicAuth
ValidatorHandle(req) ==
    /\ validator.pc \in {"idle", "done"}
    /\ validator' =
          [validator EXCEPT
              !.req = req, !.view = {}, !.viewOf = NoKvs, !.matched = "none",
              !.authUser = "",
              !.result = IF subRejects(validator.enabled, req) THEN resultInvalid ELSE "",
              !.pc = IF subRejects(validator.enabled, req) \/ "basicAuth" \notin validator.enabled
                     THEN "done" ELSE "basicAuth"]
    /\ UNCHANGED <<userCache, syncer, input, limits, sched, pipes, insts, handlers, reqs,
                   runningContexts, tags>>

\* the kvs the map of the cache was loaded from
loadedKvs == IF userCache.watcher = "reload" THEN syncer.previous ELSE syncer.current

\* BasicAuth: the credentials of the header, then Match up to its load of
\* the map
BasicAuthMatch ==
    /\ validator.pc = "basicAuth"
    /\ validator' =
          IF validator.req.basic.shape # "pair"
          THEN [validator EXCEPT !.pc = "done", !.result = resultInvalid]
          ELSE IF userCache.prefix = ""
          THEN [validator EXCEPT !.pc = "done", !.result = resultInvalid, !.matched = "false"]
          ELSE [validator EXCEPT !.pc = "lookup", !.view = userCache.users,
                                 !.viewOf = loadedKvs]
    /\ UNCHANGED <<userCache, syncer, input, limits, sched, pipes, insts, handlers, reqs,
                   runningContexts, tags>>

\* Match looks the user up in the map it loaded; BasicAuth sets
\* X-AUTH-USER when it accepts
BasicAuthLookup ==
    /\ validator.pc = "lookup"
    /\ LET c == validator.req.basic
           ok == Match(validator.view, c.user, c.password)
       IN  validator' =
              [validator EXCEPT !.pc = "done",
                                !.matched = IF ok THEN "true" ELSE "false",
                                !.viewOf = NoKvs,
                                !.result = IF ok THEN "" ELSE resultInvalid,
                                !.authUser = IF ok THEN c.user ELSE ""]
    /\ UNCHANGED <<userCache, syncer, input, limits, sched, pipes, insts, handlers, reqs,
                   runningContexts, tags>>

(***************************************************************************)
(* The request threads: dispatch and HTTPPipeline.Handle.                  *)
(***************************************************************************)
\* the HTTP server loads the pipeline of a request from the handler map;
\* requests are numbered in the order they are dispatched
Dispatch(r) ==
    /\ reqs[r].pc = "idle"
    /\ \A q \in 1..(r-1) : reqs[q].pc # "idle"
    /\ handlers[PipelineName] # NoPipeline
    /\ reqs' = [reqs EXCEPT ![r].pc = "dispatched", ![r].hp = handlers[PipelineName]]
    /\ UNCHANGED <<authVars, input, limits, sched, pipes, insts, handlers, runningContexts, tags>>

contextOfShared(r) == 1

\* the HTTPContext of request r, the key of runningContexts: every request
\* has an HTTPContext of its own
contextOf(r) == r

\* runningContexts.Store(ctx, pipeCtx): the map is a set of pairs <<ctx,
\* pipeCtx>>, the PipelineContext made by request r is r and holds
\* reqs[r].stats
newAndSetPipelineContext(m, ctx, pipeCtx) ==
    {e \in m : e[1] # ctx} \cup {<<ctx, pipeCtx>>}

\* runningContexts.Delete(ctx)
deletePipelineContext(m, ctx) == {e \in m : e[1] # ctx}

\* GetPipelineContext: the PipelineContext stored under ctx, 0 for (nil,
\* false)
GetPipelineContext(ctx) ==
    IF \E e \in runningContexts : e[1] = ctx
    THEN (CHOOSE e \in runningContexts : e[1] = ctx)[2]
    ELSE 0

\* PipelineContext.log: <empty> without stats, else the stats joined, each
\* written as its name
log(stats) ==
    IF Len(stats) = 0 THEN <<"<empty>">> ELSE [k \in 1..Len(stats) |-> stats[k].name]

HandleBeginAtEND(r) ==
    /\ reqs[r].pc = "dispatched"
    /\ runningContexts' = newAndSetPipelineContext(runningContexts, contextOf(r), r)
    /\ IF Len(RunningPlugins(reqs[r].hp)) = 0
       THEN reqs' = [reqs EXCEPT ![r].pc = "panic", ![r].stored = @ + 1]
       ELSE reqs' = [reqs EXCEPT ![r].pc = "loop", ![r].i = 1, ![r].stored = @ + 1,
                        ![r].next = LabelEND]
    /\ UNCHANGED <<authVars, input, limits, sched, pipes, insts, handlers, tags>>

\* Handle, lines 361-364: newAndSetPipelineContext, then the name of
\* runningPlugins[0], an index out of range when there is none
HandleBegin(r) ==
    /\ reqs[r].pc = "dispatched"
    /\ runningContexts' = newAndSetPipelineContext(runningContexts, contextOf(r), r)
    /\ IF Len(RunningPlugins(reqs[r].hp)) = 0
       THEN reqs' = [reqs EXCEPT ![r].pc = "panic", ![r].stored = @ + 1]
       ELSE reqs' = [reqs EXCEPT ![r].pc = "loop", ![r].i = 1, ![r].stored = @ + 1,
                        ![r].next = RunningPlugins(reqs[r].hp)[1].name]
    /\ UNCHANGED <<authVars, input, limits, sched, pipes, insts, handlers, tags>>

nextExecutedAdjacent(rps, i, next) ==
    IF next # LabelEND /\ i <= Len(rps) THEN i ELSE 0

\* the loop of Handle from index i on with nextPluginName = next: the index
\* of the running plugin it executes next, 0 when it leaves the loop first
nextExecuted(rps, i, next) ==
    IF next # LabelEND /\ \E j \in i..Len(rps) : rps[j].name = next
    THEN CHOOSE j \in i..Len(rps) :
            /\ rps[j].name = next
            /\ \A l \in i..(j-1) : rps[l].name # next
    ELSE 0

\* lines 387-401: a non-empty result leaves the loop (break) when the
\* running plugin has no jumpIf or jumpIf has no such key
breaks(rp, result) ==
    /\ result # ""
    /\ \/ Cardinality(DOMAIN rp.jumpIf) = 0
       \/ result \notin DOMAIN rp.jumpIf

nextPluginNameStale(rps, i, next, result) ==
    IF result # "" THEN rps[i].jumpIf[result] ELSE next

\* lines 387-404: nextPluginName after running plugin i returned result
nextPluginName(rps, i, next, result) ==
    IF result # "" THEN rps[i].jumpIf[result]
    ELSE IF i < Len(rps) THEN rps[i + 1].name
    ELSE next

HandlePluginFallThrough(r, result) ==
    /\ reqs[r].pc = "loop"
    /\ LET rps == RunningPlugins(reqs[r].hp)
           i == nextExecuted(rps, reqs[r].i, reqs[r].next)
           rp == rps[i]
           stat == [name |-> rp.name, kind |-> rp.kind, result |-> result,
                    pos |-> i, plugin |-> rp.plugin]
       IN  /\ i # 0
           /\ reqs' = [reqs EXCEPT ![r].stats = Append(@, stat), ![r].i = i + 1,
                           ![r].next = IF breaks(rp, result)
                                       THEN nextPluginName(rps, i, reqs[r].next, "")
                                       ELSE nextPluginName(rps, i, reqs[r].next, result)]
    /\ UNCHANGED <<authVars, input, limits, sched, pipes, insts, handlers, runningContexts, tags>>

\* Handle, lines 365-405: the loop up to and including the next call of a
\* plugin's Handle, which returns result
HandlePlugin(r, result) ==
    /\ reqs[r].pc = "loop"
    /\ LET rps == RunningPlugins(reqs[r].hp)
           i == nextExecuted(rps, reqs[r].i, reqs[r].next)
           rp == rps[i]
           stat == [name |-> rp.name, kind |-> rp.kind, result |-> result,
                    pos |-> i, plugin |-> rp.plugin]
       IN  /\ i # 0
           /\ IF breaks(rp, result)
              THEN reqs' = [reqs EXCEPT ![r].stats = Append(@, stat), ![r].pc = "tag"]
              ELSE reqs' = [reqs EXCEPT ![r].stats = Append(@, stat), ![r].i = i + 1,
                               ![r].next = nextPluginName(rps, i, reqs[r].next, result)]
    /\ UNCHANGED <<authVars, input, limits, sched, pipes, insts, handlers, runningContexts, tags>>

\* Handle leaves the loop without a break (END, or no running plugin
\* left), then line 407: ctx.AddTag
HandleTag(r) ==
    /\ \/ reqs[r].pc = "tag"
       \/ /\ reqs[r].pc = "loop"
          /\ nextExecuted(RunningPlugins(reqs[r].hp), reqs[r].i, reqs[r].next) = 0
    /\ tags' = [tags EXCEPT ![r] = @ + 1]
    /\ reqs' = [reqs EXCEPT ![r].pc = "tagged"]
    /\ UNCHANGED <<authVars, input, limits, sched, pipes, insts, handlers, runningContexts>>

\* the deferred deletePipelineContext, on return and on panic; the
\* PipelineContext and its stats are dropped with it
HandleReturn(r) ==
    /\ reqs[r].pc \in {"tagged", "panic"}
    /\ runningContexts' = deletePipelineContext(runningContexts, contextOf(r))
    /\ reqs' = [reqs EXCEPT ![r] =
                    [IdleReq EXCEPT !.pc = IF reqs[r].pc = "panic" THEN "panicked" ELSE "done",
                                    !.stored = reqs[r].stored,
                                    !.deleted = reqs[r].deleted + 1]]
    /\ UNCHANGED <<authVars, input, limits, sched, pipes, insts, handlers, tags>>

(***************************************************************************)
(* Specifications.                                                         *)
(***************************************************************************)
Next ==
    \/ \E sp \in input : SchedValidate(sp)
    \/ NewResolve
    \/ NewConstruct
    \/ NewClosePrev
    \/ NewStore
    \/ NewReturn
    \/ \E hp \in 1..Len(pipes) : CloseDelete(hp)
    \/ ClosePlugin
    \/ CloseReturn
    \/ \E r \in Requests : Dispatch(r)
    \/ \E r \in Requests : HandleBegin(r)
    \/ \E r \in Requests, result \in limits.results : HandlePlugin(r, result)
    \/ \E r \in Requests : HandleTag(r)
    \/ \E r \in Requests : HandleReturn(r)

Spec == Init /\ [][Next]_vars

\* one pipeline from validation to a request: no reload, no Close
NextSeq ==
    \/ \E sp \in input : SchedValidate(sp)
    \/ NewResolve
    \/ NewConstruct
    \/ NewStore
    \/ NewReturn
    \/ \E r \in Requests : Dispatch(r)
    \/ \E r \in Requests : HandleBegin(r)
    \/ \E r \in Requests, result \in limits.results : HandlePlugin(r, result)
    \/ \E r \in Requests : HandleTag(r)
    \/ \E r \in Requests : HandleReturn(r)

SpecSeq == InitSeq /\ [][NextSeq]_vars

\* concurrent Handle calls on one pipeline
SpecPar == InitPar /\ [][NextSeq]_vars

\* Validate and New on every spec, accepted or not
NextRaw ==
    \/ \E sp \in input : SchedValidate(sp)
    \/ NewUnvalidated
    \/ NewResolve
    \/ NewConstruct
    \/ NewStore
    \/ NewReturn

SpecRaw == InitSeq /\ [][NextRaw]_vars

\* the Validator with any sub-validators on a cache nobody changes
NextAny ==
    \/ \E req \in AnyRequests : ValidatorHandle(req)
    \/ BasicAuthMatch
    \/ BasicAuthLookup

SpecAny == InitAny /\ [][NextAny]_vars

\* BasicAuth on a cache the watcher refreshes
NextAuth ==
    \/ WatchChanges
    \/ \E kvs \in Kvs : Publish(kvs)
    \/ WatcherReload
    \/ WatcherStop
    \/ CacheClose
    \/ \E req \in BasicRequests : ValidatorHandle(req)
    \/ BasicAuthMatch
    \/ BasicAuthLookup

SpecAuth == InitAuth /\ [][NextAuth]_vars

\* the watcher goroutine is scheduled
SpecAuthLive == InitAuth /\ [][NextAuth]_vars /\ WF_vars(WatcherReload)

(***************************************************************************)
(* Notions the properties share.                                           *)
(***************************************************************************)
Pipelines == 1..Len(pipes)

\* New has reached line 344 for hp: hp.runningPlugins is assigned
Assigned(hp) == pipes[hp].state # "new"

\* New has stored hp in the handler map
Installed(hp) == pipes[hp].state \in {"stored", "running", "closing", "closed"}

RunningNames(hp) == {RunningPlugins(hp)[k].name : k \in 1..Len(RunningPlugins(hp))}

FlowNames(spec) == {spec.flow[k].plugin : k \in 1..Len(spec.flow)}

DeclaredNames(spec) == {spec.plugins[k].name : k \in 1..Len(spec.plugins)}

\* close has been called on the instance
Closed(id) == insts[id].closedByNew + insts[id].closedByClose > 0

\* the requests whose Handle is under way, with the stats recorded so far
InHandle == {r \in Requests : reqs[r].pc \in {"loop", "tag", "tagged"}}

(***************************************************************************)
(* C1.  The PluginStats Handle records start with the first running        *)
(* plugin, are in strictly increasing flow position, and every consecutive *)
(* pair (a, b) follows a's result: after "" b is the running plugin right  *)
(* after a, otherwise b is the running plugin named jumpIf[a.result] of a. *)
(***************************************************************************)
C1_StatsAreForwardWalk ==
    \A r \in InHandle :
        LET st == reqs[r].stats
            rps == RunningPlugins(reqs[r].hp)
        IN  /\ Len(st) > 0 => st[1].pos = 1
            /\ \A k \in 1..Len(st) :
                  /\ st[k].pos \in 1..Len(rps)
                  /\ st[k].name = rps[st[k].pos].name
            /\ \A k \in 1..(Len(st) - 1) :
                  /\ st[k].pos < st[k + 1].pos
                  /\ IF st[k].result = ""
                     THEN st[k + 1].pos = st[k].pos + 1
                     ELSE /\ st[k].result \in DOMAIN rps[st[k].pos].jumpIf
                          /\ st[k + 1].name = rps[st[k].pos].jumpIf[st[k].result]

\* a walk whose first plugin returned a label and jumped over the second
C1_Witness ==
    \E r \in InHandle :
        LET st == reqs[r].stats IN
        /\ Len(st) = 2
        /\ st[1].result # ""
        /\ st[2].pos = st[1].pos + 2

(***************************************************************************)
(* C2.  Validate rejects every spec in which a flow step has a jumpIf      *)
(* target that is neither END nor the plugin of a later flow step, and     *)
(* Handle never moves to a position at or before the one just executed.    *)
(***************************************************************************)
\* flow step i has a target that is neither END nor the name of a later step
BadJumpTarget(spec, i) ==
    \E r \in DOMAIN spec.flow[i].jumpIf :
        /\ spec.flow[i].jumpIf[r] # LabelEND
        /\ \A j \in (i + 1)..Len(spec.flow) : spec.flow[j].plugin # spec.flow[i].jumpIf[r]

C2_NoBackwardJump ==
    /\ sched.verr = "nil" =>
          \A i \in 1..Len(sched.spec.flow) : ~BadJumpTarget(sched.spec, i)
    /\ \A r \in InHandle :
          \A k \in 1..(Len(reqs[r].stats) - 1) :
              reqs[r].stats[k].pos < reqs[r].stats[k + 1].pos

\* Validate has rejected a spec whose only fault is a jump to the step
\* itself or to an earlier step
C2_Witness ==
    /\ sched.verr = "label not found"
    /\ \E i \in 1..Len(sched.spec.flow) :
          \E r \in DOMAIN sched.spec.flow[i].jumpIf :
              \E j \in 1..i : sched.spec.flow[j].plugin = sched.spec.flow[i].jumpIf[r]

(***************************************************************************)
(* C3.  Validate rejects every spec whose flow names the same plugin in    *)
(* two different flow steps.                                               *)
(***************************************************************************)
C3_NoRepeatedFlowPlugin ==
    sched.verr = "nil" =>
        \A i, j \in 1..Len(sched.spec.flow) :
            i # j => sched.spec.flow[i].plugin # sched.spec.flow[j].plugin

\* the pipelines New built with a predecessor
Successors == {p \in Pipelines : pipes[p].prev # NoPipeline /\ Assigned(p)}

\* the instance the predecessor of p holds under name, NoPlugin if none
PrevInstance(p, name) ==
    LET old == RunningPlugins(pipes[p].prev) IN
    IF \E k \in 1..Len(old) : old[k].name = name
    THEN old[CHOOSE k \in 1..Len(old) :
                /\ old[k].name = name
                /\ \A l \in 1..(k - 1) : old[l].name # name].plugin
    ELSE NoPlugin

(***************************************************************************)
(* C4.  A running plugin of the predecessor that New drops is closed only  *)
(* after the new pipeline is installed in the handler map.                 *)
(***************************************************************************)
C4_DroppedClosedAfterInstall ==
    \A p \in Successors :
        \A k \in 1..Len(RunningPlugins(pipes[p].prev)) :
            insts[RunningPlugins(pipes[p].prev)[k].plugin].closedByNew > 0
                => Installed(p)

(***************************************************************************)
(* C5.  No plugin instance has Handle called on it after Close was called  *)
(* on it, under any interleaving of Handle with New and Close.             *)
(***************************************************************************)
C5_NoHandleAfterClose ==
    [][\A r \in Requests :
          Len(reqs'[r].stats) > Len(reqs[r].stats)
              => ~Closed(reqs'[r].stats[Len(reqs'[r].stats)].plugin)]_vars

(***************************************************************************)
(* C6.  The handler map entry of a pipeline name is absent or a pipeline   *)
(* all of whose running plugins are constructed; a request keeps to the    *)
(* instances of the pipeline it was dispatched to; when New returns, the   *)
(* entry of spec.Name is the new pipeline.                                 *)
(***************************************************************************)
FullyBuilt(hp) ==
    /\ Len(RunningPlugins(hp)) = Len(resolveRunningPlugins(pipes[hp].spec))
    /\ \A k \in 1..Len(RunningPlugins(hp)) :
          /\ RunningPlugins(hp)[k].plugin # NoPlugin
          /\ RunningPlugins(hp)[k].plugin \in 1..Len(insts)

C6_HandlerMapAtomic ==
    /\ handlers[PipelineName] # NoPipeline => FullyBuilt(handlers[PipelineName])
    /\ \A r \in Requests :
          reqs[r].hp # NoPipeline =>
              /\ FullyBuilt(reqs[r].hp)
              /\ \A k \in 1..Len(reqs[r].stats) :
                    \E j \in 1..Len(RunningPlugins(reqs[r].hp)) :
                        RunningPlugins(reqs[r].hp)[j].plugin = reqs[r].stats[k].plugin
    /\ sched.pc = "return" => handlers[sched.spec.name] = sched.hp

\* the new pipeline is installed while a request runs the predecessor
C6_Witness ==
    \E r \in InHandle :
        /\ Len(reqs[r].stats) > 0
        /\ handlers[PipelineName] # NoPipeline
        /\ pipes[handlers[PipelineName]].prev = reqs[r].hp

(***************************************************************************)
(* C7.  As claimed: a name running in both P1 and P2 = New(spec2, P1) is   *)
(* held by P2 as the same instance P1 holds.                               *)
(***************************************************************************)
C7_SameInstance ==
    \A p \in Successors :
        \A k \in 1..Len(RunningPlugins(p)) :
            RunningPlugins(p)[k].name \in RunningNames(pipes[p].prev)
                => RunningPlugins(p)[k].plugin = PrevInstance(p, RunningPlugins(p)[k].name)

(***************************************************************************)
(* C7, amended.  A name running in both P1 and P2 = New(spec2, P1) is held *)
(* by P2 as a new instance, not the one P1 holds, whose constructor        *)
(* received the instance P1 holds under that name.                         *)
(***************************************************************************)
C7_InheritingInstance ==
    \A p \in Successors :
        \A k \in 1..Len(RunningPlugins(p)) :
            LET rp == RunningPlugins(p)[k] IN
            rp.name \in RunningNames(pipes[p].prev) =>
                /\ rp.plugin # PrevInstance(p, rp.name)
                /\ insts[rp.plugin].pipe = p
                /\ insts[rp.plugin].prev = PrevInstance(p, rp.name)

C7_Witness ==
    \E p \in Successors :
        /\ Installed(p)
        /\ RunningNames(p) \cap RunningNames(pipes[p].prev) # {}

(***************************************************************************)
(* C8.  New(spec2, P1) closes exactly once each instance of P1 whose name  *)
(* is not running in the new pipeline, and closes no instance of P1 whose  *)
(* name is retained.                                                       *)
(***************************************************************************)
C8_DroppedClosedOnce ==
    \A p \in Successors :
        \A k \in 1..Len(RunningPlugins(pipes[p].prev)) :
            LET old == RunningPlugins(pipes[p].prev)[k] IN
            IF old.name \in RunningNames(p)
            THEN insts[old.plugin].closedByNew = 0
            ELSE /\ insts[old.plugin].closedByNew <= 1
                 /\ Installed(p) => insts[old.plugin].closedByNew = 1

\* New has returned after dropping one plugin and retaining another
C8_Witness ==
    \E p \in Successors :
        /\ Installed(p)
        /\ RunningNames(pipes[p].prev) \ RunningNames(p) # {}
        /\ RunningNames(pipes[p].prev) \cap RunningNames(p) # {}

(***************************************************************************)
(* C9.  The constructor of the running plugin named N receives the         *)
(* predecessor's instance named N exactly when there is a predecessor and  *)
(* it has a running plugin named N, and the zero value otherwise.          *)
(***************************************************************************)
C9_ConstructorPrev ==
    \A id \in 1..Len(insts) :
        insts[id].prev =
            IF pipes[insts[id].pipe].prev # NoPipeline
            THEN PrevInstance(insts[id].pipe, insts[id].name)
            ELSE NoPlugin

\* one constructor got the predecessor's instance, another of the same
\* pipeline the zero value
C9_Witness ==
    \E p \in Successors :
        \E j, k \in 1..Len(RunningPlugins(p)) :
            /\ insts[RunningPlugins(p)[j].plugin].prev # NoPlugin
            /\ insts[RunningPlugins(p)[k].plugin].prev = NoPlugin

(***************************************************************************)
(* C10.  As claimed: with a non-empty flow, a declared plugin that no flow *)
(* step names is constructed by New and never executed by Handle.          *)
(***************************************************************************)
\* the declared plugins of pipeline p that its non-empty flow does not name
OutOfFlow(p) ==
    IF Len(pipes[p].spec.flow) = 0 THEN {}
    ELSE DeclaredNames(pipes[p].spec) \ FlowNames(pipes[p].spec)

NeverExecuted(p, name) ==
    \A r \in Requests :
        reqs[r].hp = p => \A k \in 1..Len(reqs[r].stats) : reqs[r].stats[k].name # name

C10_OutOfFlowConstructed ==
    \A p \in Pipelines :
        Assigned(p) =>
            \A name \in OutOfFlow(p) :
                /\ \E k \in 1..Len(RunningPlugins(p)) :
                      /\ RunningPlugins(p)[k].name = name
                      /\ RunningPlugins(p)[k].plugin # NoPlugin
                /\ NeverExecuted(p, name)

(***************************************************************************)
(* C10, amended.  With a non-empty flow, a declared plugin that no flow    *)
(* step names is not constructed by New (the pipeline holds no running     *)
(* plugin and no instance for it) and is never executed by Handle.         *)
(***************************************************************************)
C10_OutOfFlowNotConstructed ==
    \A p \in Pipelines :
        Assigned(p) =>
            \A name \in OutOfFlow(p) :
                /\ name \notin RunningNames(p)
                /\ \A id \in 1..Len(insts) :
                      insts[id].pipe = p => insts[id].name # name
                /\ NeverExecuted(p, name)

\* a request has run a plugin of a pipeline one of whose declared plugins
\* is in no flow step
C10_Witness ==
    \E r \in InHandle :
        /\ Len(reqs[r].stats) > 0
        /\ OutOfFlow(reqs[r].hp) # {}

(***************************************************************************)
(* C11.  As claimed: Validate succeeds if and only if New succeeds.  New   *)
(* returns only for a spec Validate accepted, and panics only for a spec   *)
(* Validate rejected.                                                      *)
(***************************************************************************)
C11_ValidateIffNew ==
    /\ sched.pc = "return" => sched.verr = "nil"
    /\ sched.pc = "panic" => sched.verr # "nil"

(***************************************************************************)
(* C11, amended.  Every spec Validate accepts is built by New without a    *)
(* panic; a spec Validate rejects is built by New all the same unless a    *)
(* flow step names no declared plugin or the kind of a running plugin is   *)
(* not registered.                                                         *)
(***************************************************************************)
C11_AcceptedSpecIsBuilt ==
    /\ sched.pc = "panic" => sched.verr # "nil"
    /\ sched.pc = "return" =>
          /\ ~flowPluginMissing(sched.spec)
          /\ ~kindMissing(RunningPlugins(sched.hp))
          /\ FullyBuilt(sched.hp)

\* New has returned the pipeline of a spec with a flow that Validate
\* accepted
C11_Witness ==
    /\ sched.pc = "return"
    /\ sched.verr = "nil"
    /\ Len(sched.spec.flow) > 0

(***************************************************************************)
(* C12.  Under any interleaving of concurrent Handle calls, each Handle    *)
(* stores the entry of its HTTPContext in runningContexts once and deletes *)
(* it once; while the Handle runs, GetPipelineContext of its HTTPContext   *)
(* is its own PipelineContext, the one holding the stats it has recorded;  *)
(* after it returns the entry is absent, and runningContexts is empty when *)
(* no Handle is under way.                                                 *)
(***************************************************************************)
\* the requests between newAndSetPipelineContext and deletePipelineContext
InFlight == {r \in Requests : reqs[r].pc \in {"loop", "tag", "tagged", "panic"}}

C12_ContextMap ==
    /\ \A r \in Requests :
          IF r \in InFlight
          THEN /\ reqs[r].stored = 1
               /\ reqs[r].deleted = 0
               /\ GetPipelineContext(contextOf(r)) = r
          ELSE /\ reqs[r].stored = reqs[r].deleted
               /\ reqs[r].stored = IF reqs[r].pc \in {"done", "panicked"} THEN 1 ELSE 0
               /\ GetPipelineContext(contextOf(r)) = 0
    /\ Cardinality(runningContexts) = Cardinality(InFlight)
    /\ InFlight = {} => runningContexts = {}

\* two Handle calls are under way with different stats, the later one
\* having stored its entry while the earlier one was running
C12_Witness ==
    \E r, q \in InFlight :
        /\ r < q
        /\ Len(reqs[r].stats) > 0
        /\ reqs[r].stats # reqs[q].stats

NamesDistinct(spec) ==
    \A i, j \in 1..Len(spec.plugins) :
        i # j => spec.plugins[i].name # spec.plugins[j].name

C19_NamesDistinctNoEND ==
    /\ sched.verr = "nil" =>
          /\ NamesDistinct(sched.spec)
          /\ LabelEND \notin DeclaredNames(sched.spec)
    /\ \A p \in Pipelines :
          /\ NamesDistinct(pipes[p].spec)
          /\ LabelEND \notin DeclaredNames(pipes[p].spec)
          /\ LabelEND \notin RunningNames(p)

\* Validate has rejected a spec whose second plugin has the name of the
\* first
C19_Witness ==
    /\ sched.verr = "conflict name"
    /\ Len(sched.spec.plugins) = 2
    /\ sched.spec.plugins[1].name = sched.spec.plugins[2].name

(***************************************************************************)
(* C20.  In a pipeline built from a validated spec, when a plugin returns  *)
(* a non-empty result that is not a key of its jumpIf, Handle executes no  *)
(* further plugin: the stat of that plugin is the last one recorded and    *)
(* Handle has left the loop.                                               *)
(***************************************************************************)
\* the k-th stat of request r has a result its running plugin has no jump for
Unmapped(r, k) ==
    LET st == reqs[r].stats[k] IN
    /\ st.result # ""
    /\ st.result \notin DOMAIN RunningPlugins(reqs[r].hp)[st.pos].jumpIf

C20_UnmappedResultStops ==
    \A r \in InHandle :
        \A k \in 1..Len(reqs[r].stats) :
            Unmapped(r, k) =>
                /\ k = Len(reqs[r].stats)
                /\ reqs[r].pc \in {"tag", "tagged"}

\* a plugin with a non-empty jumpIf returned a label that is not a key of
\* it, with running plugins left after it
C20_Witness ==
    \E r \in InHandle :
        /\ Len(reqs[r].stats) > 0
        /\ Unmapped(r, Len(reqs[r].stats))
        /\ LET st == reqs[r].stats[Len(reqs[r].stats)] IN
           /\ DOMAIN RunningPlugins(reqs[r].hp)[st.pos].jumpIf # {}
           /\ st.pos < Len(RunningPlugins(reqs[r].hp))

(***************************************************************************)
(* C14.  The map of the etcdUserCache is at every moment the whole of one  *)
(* kvs, the one GetPrefix returned or the latest one the watcher has       *)
(* loaded, and a Match that runs while the watcher replaces the map        *)
(* answers from the whole of the kvs the map held when Match loaded it,    *)
(* never from entries of two.                                              *)
(***************************************************************************)
\* kvs has a document for u whose password is pw, hashed or plain
Accepts(kvs, u, pw) ==
    \E d \in kvs :
        /\ (IF d.username # "" THEN d.username ELSE d.key) = u
        /\ d.password \in {bcryptHash(pw), plainText(pw)}

\* the map answers every Match as the documents of kvs say
AnswersFrom(users, kvs) ==
    \A u \in UserIds, pw \in Passwords : Match(users, u, pw) = Accepts(kvs, u, pw)

C14_WholeSnapshot ==
    /\ AnswersFrom(userCache.users,
                   IF userCache.watcher = "reload" THEN syncer.previous ELSE syncer.current)
    /\ \E kvs \in Kvs : \A e \in userCache.users :
          \E d \in kvs : e = <<IF d.username # "" THEN d.username ELSE d.key, d.password>>
    /\ validator.pc = "lookup" => AnswersFrom(validator.view, validator.viewOf)

\* the watcher has replaced the map under a Match that had loaded the old
\* one
C14_Witness ==
    /\ validator.pc = "lookup"
    /\ userCache.watcher = "recv"
    /\ syncer.n > 0
    /\ ~AnswersFrom(validator.view, syncer.current)

(***************************************************************************)
(* C15.  After a kvs is sent on the syncer channel while the cache is not  *)
(* closed, the cache comes to answer every Match from that kvs, unless it  *)
(* is closed first: a user the kvs lacks is rejected, a user it adds is    *)
(* accepted with the password of its document.                             *)
(***************************************************************************)
C15_SnapshotTakesEffect ==
    \A kvs \in Kvs :
        (userCache.watcher = "reload" /\ userCache.kvs = kvs /\ ~userCache.closed)
            ~> (userCache.closed \/ AnswersFrom(userCache.users, kvs))

\* after a kvs that drops userY and adds doge, doge has been accepted
C15_Witness ==
    /\ syncer.n > 0
    /\ userCache.watcher = "recv"
    /\ ~userCache.closed
    /\ \E pw \in Passwords : Accepts(syncer.previous, "userY", pw)
    /\ \A pw \in Passwords : ~Accepts(syncer.current, "userY", pw)
    /\ \A pw \in Passwords : ~Accepts(syncer.previous, "doge", pw)
    /\ validator.pc = "done"
    /\ validator.result = ""
    /\ validator.authUser = "doge"
    /\ \A pw \in Passwords : ~Match(userCache.users, "userY", pw)

(***************************************************************************)
(* C16.  Validator.Handle returns invalid exactly when an enabled          *)
(* sub-validator rejects the request, otherwise the empty result, and no   *)
(* other result.                                                           *)
(***************************************************************************)
\* what each sub-validator has to reject: an Is-Valid header that is
\* neither listed nor matches the regexp, a bearer token that does not
\* verify, a bad signature, a token that is not active, Basic credentials
\* the cache has no matching entry for
Rejects(sub, req) ==
    CASE sub = "headers" -> req.isValid \notin {"abc", "goodplan", "ok-1"}
      [] sub = "jwt" -> req.bearer # "good"
      [] sub = "signature" -> ~req.signed
      [] sub = "oauth2" -> ~req.active
      [] sub = "basicAuth" ->
            \/ req.basic.shape # "pair"
            \/ ~Accepts(syncer.current, req.basic.user, req.basic.password)

C16_InvalidIffRejected ==
    /\ validator.result \in {"", resultInvalid}
    /\ validator.pc = "done" =>
          (validator.result = resultInvalid
              <=> \E sub \in validator.enabled : Rejects(sub, validator.req))

\* with every sub-validator enabled, BasicAuth alone has rejected
C16_Witness ==
    /\ validator.pc = "done"
    /\ Cardinality(validator.enabled) = Len(SubValidators)
    /\ validator.result = resultInvalid
    /\ \A sub \in validator.enabled \ {"basicAuth"} : ~Rejects(sub, validator.req)

(***************************************************************************)
(* C17.  As claimed: Basic credentials (u, pw) are accepted exactly when   *)
(* the cache holds an entry for u that is the bcrypt hash of pw, and       *)
(* X-AUTH-USER is set to u exactly on accept.                              *)
(***************************************************************************)
\* the request Handle has finished carried (u, pw) and the map Match read
\* holds an entry for u among stored
EntryAmong(stored) ==
    /\ validator.req.basic.shape = "pair"
    /\ \E e \in validator.view : e[1] = validator.req.basic.user /\ e[2] \in stored

C17_BcryptOnly ==
    validator.pc = "done" =>
        /\ validator.result = ""
              <=> EntryAmong({bcryptHash(validator.req.basic.password)})
        /\ validator.authUser = IF validator.result = "" THEN validator.req.basic.user ELSE ""

(***************************************************************************)
(* C17, amended.  Basic credentials (u, pw) are accepted exactly when the  *)
(* cache holds an entry for u whose stored password is the bcrypt hash of  *)
(* pw or is pw itself in plain text; a wrong password, an unknown user, no *)
(* Authorization header and credentials without ':' are rejected as        *)
(* invalid; X-AUTH-USER is set to u on accept and only then.               *)
(***************************************************************************)
C17_BasicAuthAccepts ==
    validator.pc = "done" =>
        /\ validator.result \in {"", resultInvalid}
        /\ validator.result = ""
              <=> EntryAmong({bcryptHash(validator.req.basic.password),
                              plainText(validator.req.basic.password)})
        /\ validator.authUser = IF validator.result = "" THEN validator.req.basic.user ELSE ""

\* doge, whose document holds the password in plain text, is accepted
C17_Witness ==
    /\ validator.pc = "done"
    /\ validator.result = ""
    /\ validator.authUser = "doge"
    /\ <<"doge", plainText(validator.req.basic.password)>> \in validator.view

(***************************************************************************)
(* C18.  An etcdUserCache with the empty prefix makes no cluster call,     *)
(* its Match returns false for every user and password, and its Close      *)
(* returns, whatever WatchChanges, Match and Close calls it gets.          *)
(***************************************************************************)
C18_EmptyPrefixInert ==
    userCache.prefix = "" =>
        /\ userCache.calls = {}
        /\ userCache.watcher = "off"
        /\ userCache.users = {}
        /\ validator.matched # "true"
        /\ validator.pc = "done" =>
              /\ validator.result = resultInvalid
              /\ validator.req.basic.shape = "pair" => validator.matched = "false"

\* WatchChanges, a Match and Close have returned on a cache without prefix
C18_Witness ==
    /\ userCache.prefix = ""
    /\ userCache.watched
    /\ userCache.closed
    /\ validator.pc = "done"
    /\ validator.matched = "false"

(***************************************************************************)
(* C21.  When the running plugin at position i returns a result r with     *)
(* jumpIf[r] = T: if T is END no later running plugin is executed;         *)
(* otherwise the next running plugin executed is the first one after i     *)
(* named T, and no running plugin strictly between the two is executed or  *)
(* gets a PluginStat.                                                      *)
(***************************************************************************)
\* the k-th stat of request r has a result its running plugin has a jump for
Jumped(r, k) ==
    LET st == reqs[r].stats[k] IN
    /\ st.result # ""
    /\ st.result \in DOMAIN RunningPlugins(reqs[r].hp)[st.pos].jumpIf

\* the target of that jump
JumpTarget(r, k) ==
    LET st == reqs[r].stats[k] IN RunningPlugins(reqs[r].hp)[st.pos].jumpIf[st.result]

\* the first position after i whose running plugin is named name, 0 if none
FirstNamedAfter(rps, i, name) ==
    IF \E j \in (i + 1)..Len(rps) : rps[j].name = name
    THEN CHOOSE j \in (i + 1)..Len(rps) :
            /\ rps[j].name = name
            /\ \A l \in (i + 1)..(j - 1) : rps[l].name # name
    ELSE 0

C21_JumpSkipsToTarget ==
    \A r \in InHandle :
        LET st == reqs[r].stats
            rps == RunningPlugins(reqs[r].hp)
        IN  \A k \in 1..Len(st) :
                Jumped(r, k) =>
                    IF JumpTarget(r, k) = LabelEND
                    THEN /\ k = Len(st)
                         /\ reqs[r].pc = "loop" =>
                               nextExecuted(rps, reqs[r].i, reqs[r].next) = 0
                    ELSE LET t == FirstNamedAfter(rps, st[k].pos, JumpTarget(r, k)) IN
                         /\ t # 0
                         /\ \A l \in 1..Len(st) : ~(st[k].pos < st[l].pos /\ st[l].pos < t)
                         /\ IF k < Len(st)
                            THEN /\ st[k + 1].pos = t
                                 /\ st[k + 1].name = JumpTarget(r, k)
                            ELSE /\ reqs[r].pc = "loop"
                                 /\ nextExecuted(rps, reqs[r].i, reqs[r].next) = t

\* the first running plugin jumped over the second to the third, which
\* has run
C21_Witness ==
    \E r \in InHandle :
        /\ Len(reqs[r].stats) = 2
        /\ Jumped(r, 1)
        /\ JumpTarget(r, 1) # LabelEND
        /\ reqs[r].stats[1].pos = 1
        /\ reqs[r].stats[2].pos = 3
        /\ RunningPlugins(reqs[r].hp)[2].name # JumpTarget(r, 1)

(***************************************************************************)
(* C22.  A pipeline whose spec has an empty flow runs all declared plugins *)
(* in declaration order with empty jumpIf: Handle executes them one after  *)
(* the other from the first, each once, as long as they return the empty   *)
(* result, and the first one that returns a non-empty result is the last   *)
(* one executed.                                                           *)
(***************************************************************************)
EmptyFlow(p) == Assigned(p) /\ Len(pipes[p].spec.flow) = 0

C22_EmptyFlowInOrder ==
    /\ \A p \in Pipelines :
          EmptyFlow(p) =>
              /\ Len(RunningPlugins(p)) = Len(pipes[p].spec.plugins)
              /\ \A k \in 1..Len(RunningPlugins(p)) :
                    /\ RunningPlugins(p)[k].name = pipes[p].spec.plugins[k].name
                    /\ RunningPlugins(p)[k].kind = pipes[p].spec.plugins[k].kind
                    /\ DOMAIN RunningPlugins(p)[k].jumpIf = {}
    /\ \A r \in InHandle :
          EmptyFlow(reqs[r].hp) =>
              LET st == reqs[r].stats
                  n == Len(RunningPlugins(reqs[r].hp))
              IN  /\ \A k \in 1..Len(st) :
                        /\ st[k].pos = k
                        /\ st[k].name = pipes[reqs[r].hp].spec.plugins[k].name
                        /\ k < Len(st) => st[k].result = ""
                  /\ reqs[r].pc \in {"tag", "tagged"} =>
                        /\ Len(st) > 0
                        /\ st[Len(st)].result = "" => Len(st) = n
                  /\ (Len(st) > 0 /\ reqs[r].pc = "loop") => st[Len(st)].result = ""

\* Handle has run the two declared plugins of a pipeline without flow, both
\* returned the empty result
C22_Witness ==
    \E r \in InHandle :
        /\ EmptyFlow(reqs[r].hp)
        /\ reqs[r].pc = "tagged"
        /\ Len(RunningPlugins(reqs[r].hp)) = 2
        /\ Len(reqs[r].stats) = 2
        /\ reqs[r].stats[2].result = ""

(***************************************************************************)
(* C23.  Every Handle call on a pipeline with at least one running plugin  *)
(* executes the first running plugin, so the stats are not empty when the  *)
(* tag is made and the tag is never <empty>; Handle adds one tag per call, *)
(* after the last plugin it executes and before the PipelineContext is     *)
(* deleted from runningContexts.                                           *)
(***************************************************************************)
C23_OneTagAfterWalk ==
    \A r \in Requests :
        LET st == reqs[r].stats IN
        /\ Len(st) > 0 => st[1].pos = 1
        /\ reqs[r].pc \in {"dispatched", "loop", "tag", "panic", "panicked"} => tags[r] = 0
        /\ reqs[r].pc = "tag" => Len(st) > 0
        /\ reqs[r].pc = "loop" =>
              (Len(st) = 0 =>
                  nextExecuted(RunningPlugins(reqs[r].hp), reqs[r].i, reqs[r].next) = 1)
        /\ reqs[r].pc = "tagged" =>
              /\ tags[r] = 1
              /\ log(st) # <<"<empty>">>
              /\ GetPipelineContext(contextOf(r)) = r
        /\ reqs[r].pc = "done" =>
              /\ tags[r] = 1
              /\ GetPipelineContext(contextOf(r)) = 0

\* Handle has added its tag after two plugins, the PipelineContext is
\* still in runningContexts
C23_Witness ==
    \E r \in Requests :
        /\ reqs[r].pc = "tagged"
        /\ tags[r] = 1
        /\ Len(log(reqs[r].stats)) = 2
        /\ GetPipelineContext(contextOf(r)) = r

(***************************************************************************)
(* C24.  For every spec Validate accepts, also one whose plugins list is   *)
(* present but empty, Handle on the pipeline New built from it completes   *)
(* without a runtime panic: it never indexes a running plugin that does    *)
(* not exist.                                                              *)
(***************************************************************************)
C24_HandleNeverPanics ==
    \A r \in Requests :
        /\ reqs[r].pc \notin {"panic", "panicked"}
        /\ reqs[r].pc = "dispatched" => Len(RunningPlugins(reqs[r].hp)) > 0

(***************************************************************************)
(* C25.  After P2 = New(spec2, P1) under the same name has replaced P1 in  *)
(* the handler map, Close of P1 leaves P2 untouched: the handler map still *)
(* maps the name to P2 and no instance P2 holds is closed.                 *)
(***************************************************************************)
\* q is running, was built on p, and no pipeline was stored after it
ReplacedBy(p, q) ==
    /\ pipes[q].prev = p
    /\ pipes[q].state = "running"
    /\ \A n \in Pipelines : n > q => ~Installed(n)

C25_CloseLeavesSuccessor ==
    \A p, q \in Pipelines :
        (ReplacedBy(p, q) /\ pipes[p].state \in {"closing", "closed"}) =>
            /\ handlers[pipes[q].spec.name] = q
            /\ \A k \in 1..Len(RunningPlugins(q)) : ~Closed(RunningPlugins(q)[k].plugin)

=============================================================================
